---- MODULE Spec2Model ----
(***************************************************************************)
(* A model of two pieces of the repository:                                *)
(*                                                                         *)
(*  - SortByPill (packages/ui/src/elements/FolderView/SortByPill):         *)
(*    the sort selector of the folder view.  It reads the sort descriptor  *)
(*    from the folder context, derives the selected field and direction    *)
(*    from it on every render, and its menu buttons call                   *)
(*    refineFolderData and the popup's close callback.                     *)
(*                                                                         *)
(*  - deletePost (docs/local-api/server-functions.mdx): the documented     *)
(*    server function that checks the user's role before deleting a post.  *)
(*                                                                         *)
(* A descriptor is a JavaScript string; it is modelled as the sequence of  *)
(* its characters, so that startsWith, slice and the template literal      *)
(* `-${sort}` are computed character by character.                         *)
(***************************************************************************)
EXTENDS Integers, Sequences, FiniteSets, TLC

VARIABLES
    sort,       \* the folder context's sort descriptor (useFolder().sort)
    view,       \* what the last render of SortByPill produced
    open,       \* whether the popup's menu is showing
    calls,      \* every call made to refineFolderData and close, in order
    last        \* the last menu click: its button, the sort it saw, Len(calls) before it

VARIABLES
    posts,      \* the ids of the documents in the 'posts' collection
    inv,        \* the deletePost invocation: its arguments, position and outcome
    apiCalls    \* the calls that invocation made to getPayload and payload.delete

uiVars == <<sort, view, open, calls, last>>
fnVars == <<posts, inv, apiCalls>>
vars == <<sort, view, open, calls, last, posts, inv, apiCalls>>

----------------------------------------------------------------------------
(* Bounds *)

\* The clicks stop once this many collaborator calls are recorded.
MaxCalls == 6

\* The descriptors the context starts with carry at most this many leading '-'.
MaxDashes == 2

\* The 'posts' collection starts with the documents 1..MaxPostId.
MaxPostId == 2

----------------------------------------------------------------------------
(* JavaScript strings as character sequences *)

\* String.prototype.startsWith with a one-character search string.
startsWith(s, c) == Len(s) > 0 /\ s[1] = c

\* String.prototype.slice(n): the string from index n on (empty when n >= length).
slice(s, n) == SubSeq(s, n + 1, Len(s))

\* n characters '-'.
RECURSIVE Dashes(_)
Dashes(n) == IF n = 0 THEN << >> ELSE <<"-">> \o Dashes(n - 1)

----------------------------------------------------------------------------
(* The option tables *)

sortOnOptions ==
    << [label |-> "general:name",
        value |-> <<"_","f","o","l","d","e","r","O","r","D","o","c","u","m","e","n","t","T","i","t","l","e">>],
       [label |-> "general:createdAt",
        value |-> <<"c","r","e","a","t","e","d","A","t">>],
       [label |-> "general:updatedAt",
        value |-> <<"u","p","d","a","t","e","d","A","t">>] >>

orderOnOptions ==
    << [label |-> "general:ascending",  icon |-> "SortUpIcon",   value |-> "asc"],
       [label |-> "general:descending", icon |-> "SortDownIcon", value |-> "desc"] >>

----------------------------------------------------------------------------
(* The derivation done on every render *)

\* sortDirection as a test for exactly one leading '-' would compute it.
sortDirectionOneDash(s) ==
    IF startsWith(s, "-") /\ ~startsWith(slice(s, 1), "-") THEN "desc" ELSE "asc"

sortDirection(s) == IF startsWith(s, "-") THEN "desc" ELSE "asc"

\* fieldKey with every leading '-' removed, as s.replace(/^-+/, '') would.
RECURSIVE fieldKeyAllDashes(_)
fieldKeyAllDashes(s) == IF startsWith(s, "-") THEN fieldKeyAllDashes(slice(s, 1)) ELSE s

\* The string the field options are compared with.
fieldKey(s) == IF startsWith(s, "-") THEN slice(s, 1) ELSE s

\* const [selectedSortOption] = sortOnOptions.filter(...): the filtered array
\* (SelectSeq is Array.prototype.filter) is kept whole here; its first element
\* is the destructured constant, and the empty array stands for undefined.
selectedSortOption(s) == SelectSeq(sortOnOptions, LAMBDA o : o.value = fieldKey(s))

selectedOrderOption(s) == SelectSeq(orderOnOptions, LAMBDA o : o.value = sortDirection(s))

\* The icon expression of the trigger pill.
triggerIcon(s) == IF sortDirection(s) = "asc" THEN "SortUpIcon" ELSE "SortDownIcon"

\* active={selectedSortOption.value === value} of the field buttons.
sortActive(s) ==
    [i \in 1..Len(sortOnOptions) |-> selectedSortOption(s)[1].value = sortOnOptions[i].value]

\* active={selectedOrderOption.value === value} of the direction buttons.
orderActive(s) ==
    [i \in 1..Len(orderOnOptions) |-> selectedOrderOption(s)[1].value = orderOnOptions[i].value]

\* One render of SortByPill.  The trigger's children are built while the
\* component renders, so selectedSortOption.label(t) on undefined throws a
\* TypeError out of the render and nothing is shown.
SortByPill(s) ==
    IF Len(selectedSortOption(s)) = 0
    THEN [error |-> "TypeError", icon |-> "none", label |-> "none",
          sortActive |-> << >>, orderActive |-> << >>]
    ELSE [error |-> "none",
          icon |-> triggerIcon(s),
          label |-> selectedSortOption(s)[1].label,
          sortActive |-> sortActive(s),
          orderActive |-> orderActive(s)]

----------------------------------------------------------------------------
(* The collaborators: the calls a handler makes and what they do *)

RefineCall(options) == <<"refineFolderData", options>>
CloseCall == <<"close">>

\* refineFolderData applies the descriptor it is given to the folder context.
refineFolderData(s, options) == options.query.sort

\* The descriptor after the calls cs, made in order, starting from s.
RECURSIVE SortAfter(_, _)
SortAfter(cs, s) ==
    IF Len(cs) = 0 THEN s
    ELSE SortAfter(Tail(cs),
                   IF Head(cs)[1] = "refineFolderData"
                   THEN refineFolderData(s, Head(cs)[2])
                   ELSE s)

\* The popup after the calls cs: close() hides the menu.
RECURSIVE OpenAfter(_, _)
OpenAfter(cs, o) ==
    IF Len(cs) = 0 THEN o
    ELSE OpenAfter(Tail(cs), IF Head(cs) = CloseCall THEN FALSE ELSE o)

----------------------------------------------------------------------------
(* The click handlers: the calls each makes, in order *)

\* sortOnClick keeping the current direction.
sortOnClickKeepDirection(value, s) ==
    << RefineCall([query |-> [sort |-> IF startsWith(s, "-") THEN <<"-">> \o value ELSE value],
                   updateURL |-> TRUE]),
       CloseCall >>

\* onClick of a field button; value is the button's option value; s is the
\* sort the render closed over, which the handler does not read.
sortOnClick(value, s) ==
    << RefineCall([query |-> [sort |-> value], updateURL |-> TRUE]),
       CloseCall >>

\* orderOnClick setting the direction named by the button.
orderOnClickSetDirection(value, s) ==
    << RefineCall([query |-> [sort |-> IF value = "desc" THEN <<"-">> \o fieldKey(s) ELSE fieldKey(s)],
                   updateURL |-> TRUE]),
       CloseCall >>

\* orderOnClick with close() inside the branch on 'asc'.
orderOnClickCloseInBranch(value, s) ==
    IF value = "asc"
    THEN << RefineCall([query |-> [sort |-> <<"-">> \o s], updateURL |-> TRUE]), CloseCall >>
    ELSE << >>

\* orderOnClick toggling the leading '-'.
orderOnClickToggle(value, s) ==
    (IF value = "asc"
     THEN << RefineCall([query |-> [sort |-> IF startsWith(s, "-") THEN slice(s, 1) ELSE <<"-">> \o s],
                         updateURL |-> TRUE]) >>
     ELSE << >>)
    \o << CloseCall >>

\* onClick of a direction button; value is "asc" or "desc", s the sort the
\* render closed over.
orderOnClick(value, s) ==
    (IF value = "asc"
     THEN << RefineCall([query |-> [sort |-> IF value = "asc" THEN <<"-">> \o s ELSE s],
                         updateURL |-> TRUE]) >>
     ELSE << >>)
    \o << CloseCall >>

----------------------------------------------------------------------------
(* deletePost(postId, user), the documented server function *)

\* The values passed as user: null, undefined, or an object whose role is a
\* string or is missing.
Users ==
    {[kind |-> "null", role |-> "undefined"], [kind |-> "undefined", role |-> "undefined"]}
    \cup {[kind |-> "object", role |-> r] : r \in {"admin", "Admin", "editor", "undefined"}}

PostIds == 1..(MaxPostId + 1)

\* !user
falsy(user) == user.kind \in {"null", "undefined"}

\* The check with the role comparison left out.
unauthorizedNoRole(user) == falsy(user)

\* !user || user.role !== 'admin'
unauthorized(user) == falsy(user) \/ user.role # "admin"

\* payload.delete({ collection: 'posts', id }) removes that document.
payloadDelete(ps, id) == ps \ {id}

NoInvocation == [pc |-> "idle", postId |-> 0, user |-> [kind |-> "undefined", role |-> "undefined"],
                 error |-> "none", postsBefore |-> {}]

FnIdle ==
    /\ posts = 1..MaxPostId
    /\ inv = NoInvocation
    /\ apiCalls = << >>

\* The call of deletePost runs to its first await: the role check, then
\* getPayload({ config }).
Invoke(postId, user) ==
    /\ inv.pc \in {"idle", "resolved", "rejected"}
    /\ IF unauthorized(user)
       THEN /\ inv' = [pc |-> "rejected", postId |-> postId, user |-> user,
                       error |-> "Unauthorized", postsBefore |-> posts]
            /\ apiCalls' = << >>
       ELSE /\ inv' = [pc |-> "awaitPayload", postId |-> postId, user |-> user,
                       error |-> "none", postsBefore |-> posts]
            /\ apiCalls' = << <<"getPayload">> >>
    /\ UNCHANGED posts
    /\ UNCHANGED uiVars

\* getPayload resolves; payload.delete is called.
PayloadObtained ==
    /\ inv.pc = "awaitPayload"
    /\ inv' = [inv EXCEPT !.pc = "awaitDelete"]
    /\ apiCalls' = Append(apiCalls, <<"payload.delete", [collection |-> "posts", id |-> inv.postId]>>)
    /\ UNCHANGED posts
    /\ UNCHANGED uiVars

\* payload.delete resolves; deletePost returns its result.
Deleted ==
    /\ inv.pc = "awaitDelete"
    /\ posts' = payloadDelete(posts, inv.postId)
    /\ inv' = [inv EXCEPT !.pc = "resolved"]
    /\ UNCHANGED apiCalls
    /\ UNCHANGED uiVars

\* An awaited promise rejects; nothing catches it, so deletePost rejects too.
AwaitRejects ==
    /\ inv.pc \in {"awaitPayload", "awaitDelete"}
    /\ inv' = [inv EXCEPT !.pc = "rejected", !.error = "Error"]
    /\ UNCHANGED <<posts, apiCalls>>
    /\ UNCHANGED uiVars

----------------------------------------------------------------------------
(* The state machine of the selector *)

Fields == {<< >>, <<"t","i","t","l","e">>} \cup {sortOnOptions[i].value : i \in 1..Len(sortOnOptions)}

\* The descriptors the folder context may hold when the component mounts (the
\* context takes it from the URL's query, so it need not name a field option).
Descriptors == {Dashes(n) \o f : n \in 0..MaxDashes, f \in Fields}

\* Descriptors of the form k or '-' + k with k a field option value.
WellFormed == {Dashes(n) \o sortOnOptions[i].value : n \in 0..1, i \in 1..Len(sortOnOptions)}

NoClick(s) == [group |-> "none", index |-> 0, sort |-> s, mark |-> 0]

InitFrom(S) ==
    /\ sort \in S
    /\ view = SortByPill(sort)
    /\ open = FALSE
    /\ calls = << >>
    /\ last = NoClick(sort)
    /\ FnIdle

\* The handler's calls take effect and the component renders again.
Handle(group, index, cs) ==
    /\ calls' = calls \o cs
    /\ sort' = SortAfter(cs, sort)
    /\ open' = OpenAfter(cs, open)
    /\ view' = SortByPill(sort')
    /\ last' = [group |-> group, index |-> index, sort |-> sort, mark |-> Len(calls)]
    /\ UNCHANGED fnVars

\* The user activates the trigger pill.
OpenPopup ==
    /\ view.error = "none"
    /\ ~open
    /\ open' = TRUE
    /\ UNCHANGED <<sort, view, calls, last>>
    /\ UNCHANGED fnVars

ClickSortOption(i) ==
    /\ view.error = "none"
    /\ open
    /\ Len(calls) + 2 <= MaxCalls
    /\ Handle("sort", i, sortOnClick(sortOnOptions[i].value, sort))

ClickOrderOption(i) ==
    /\ view.error = "none"
    /\ open
    /\ Len(calls) + 2 <= MaxCalls
    /\ Handle("order", i, orderOnClick(orderOnOptions[i].value, sort))

Init == InitFrom(Descriptors)

Next ==
    \/ OpenPopup
    \/ \E i \in 1..Len(sortOnOptions) : ClickSortOption(i)
    \/ \E i \in 1..Len(orderOnOptions) : ClickOrderOption(i)

Spec == Init /\ [][Next]_vars

\* The selector mounted on a well-formed descriptor.
InitWellFormed == InitFrom(WellFormed)

SpecWellFormed == InitWellFormed /\ [][Next]_vars

\* deletePost called any number of times, one call at a time.
FnInit == InitFrom({sortOnOptions[1].value})

FnNext ==
    \/ \E postId \in PostIds, user \in Users : Invoke(postId, user)
    \/ PayloadObtained
    \/ Deleted
    \/ AwaitRejects

FnSpec == FnInit /\ [][FnNext]_vars

----------------------------------------------------------------------------
(* What the properties below read from the state *)

\* The calls made by the last click.
ClickCalls == SubSeq(calls, last.mark + 1, Len(calls))

\* The calls among cs that go to refineFolderData.
RefineCalls(cs) == SelectSeq(cs, LAMBDA c : c[1] = "refineFolderData")

\* d with one leading '-' removed, if it has one.
StripOneDash(d) == IF Len(d) > 0 /\ Head(d) = "-" THEN Tail(d) ELSE d

LeadingDash(d) == Len(d) > 0 /\ Head(d) = "-"

CreatedAt == sortOnOptions[2].value
UpdatedAt == sortOnOptions[3].value

LastIsSortClick == last.group = "sort"
LastIsOrderClick(value) == last.group = "order" /\ orderOnOptions[last.index].value = value

IsAdmin(user) == user.kind = "object" /\ user.role = "admin"

----------------------------------------------------------------------------
(* C1 *)

\* C1: from a descriptor k or '-' + k, after any sequence of field and direction
\* clicks, exactly one field option and exactly one direction option are
\* selected: the descriptor with one leading '-' removed equals exactly one
\* option value, and the render shows one active button in each group.
C1_ExactlyOneSelected ==
    /\ Cardinality({i \in 1..Len(sortOnOptions) :
                        sortOnOptions[i].value = StripOneDash(sort)}) = 1
    /\ view.error = "none"
    /\ Cardinality({i \in DOMAIN view.sortActive : view.sortActive[i]}) = 1
    /\ Cardinality({i \in DOMAIN view.orderActive : view.orderActive[i]}) = 1

----------------------------------------------------------------------------
(* C2 *)

\* C2: a click on field option F calls refineFolderData exactly once, with
\* query.sort equal to F's value and updateURL true; that value has no leading
\* '-', so the descriptor becomes F's value, ascending, whatever the direction
\* was before.
C2_FieldClickResetsToAscending ==
    LastIsSortClick =>
        LET F == sortOnOptions[last.index].value IN
        /\ RefineCalls(ClickCalls) = << RefineCall([query |-> [sort |-> F], updateURL |-> TRUE]) >>
        /\ ~LeadingDash(F)
        /\ sort = F
        /\ view.error = "none" /\ view.icon = "SortUpIcon"

\* A click on updatedAt while the descriptor was '-createdAt'.
C2_Witness ==
    /\ LastIsSortClick
    /\ last.sort = <<"-">> \o CreatedAt
    /\ sort = UpdatedAt

----------------------------------------------------------------------------
(* C3 *)

\* C3: a click on the 'descending' option makes no call to refineFolderData and
\* leaves the descriptor as it was; an ascending descriptor stays ascending.
C3_DescendingClickChangesNothing ==
    LastIsOrderClick("desc") =>
        /\ RefineCalls(ClickCalls) = << >>
        /\ sort = last.sort
        /\ view.icon = IF LeadingDash(last.sort) THEN "SortDownIcon" ELSE "SortUpIcon"

\* A click on 'descending' while the descriptor was 'createdAt'.
C3_Witness ==
    /\ LastIsOrderClick("desc")
    /\ last.sort = CreatedAt
    /\ sort = CreatedAt

----------------------------------------------------------------------------
(* C4 *)

\* C4: a click on the 'ascending' option while the descriptor is ascending (no
\* leading '-') leaves the descriptor unchanged.
C4_AscendingClickOnAscendingIsNoOp ==
    (LastIsOrderClick("asc") /\ ~LeadingDash(last.sort)) => sort = last.sort

----------------------------------------------------------------------------
(* C5 *)

\* C5: for every descriptor the derived direction is 'desc' exactly when the
\* descriptor starts with '-' and 'asc' otherwise; the trigger icon and the
\* direction button marked active are the ones of that direction.
C5_DirectionFollowsLeadingDash ==
    LET dir == IF LeadingDash(sort) THEN "desc" ELSE "asc"
        icon == IF LeadingDash(sort) THEN "SortDownIcon" ELSE "SortUpIcon"
    IN
    /\ sortDirection(sort) = dir
    /\ triggerIcon(sort) = icon
    /\ \A i \in 1..Len(orderOnOptions) : orderActive(sort)[i] <=> (orderOnOptions[i].value = dir)
    /\ view.error = "none" =>
          /\ view.icon = icon
          /\ \A i \in 1..Len(orderOnOptions) :
                 view.orderActive[i] <=> (orderOnOptions[i].value = dir)

\* A descriptor with two leading '-', made by a click on 'ascending'.
C5_Witness ==
    /\ LastIsOrderClick("asc")
    /\ sort = <<"-", "-">> \o UpdatedAt
    /\ sortDirection(sort) = "desc"

----------------------------------------------------------------------------
(* C6 *)

\* C6: the string compared with the field options is the descriptor with
\* exactly one leading '-' removed when it starts with '-', and the descriptor
\* itself otherwise; further leading '-' stay in it, so a descriptor with two
\* leading '-' matches no field option.
C6_FieldKeyStripsOneDash ==
    /\ LeadingDash(sort) => (<<"-">> \o fieldKey(sort) = sort)
    /\ ~LeadingDash(sort) => fieldKey(sort) = sort
    /\ (view.error = "none") <=>
           (\E i \in 1..Len(sortOnOptions) : sortOnOptions[i].value = StripOneDash(sort))

\* '--createdAt', made by a click on 'ascending', gives the field key '-createdAt'.
C6_Witness ==
    /\ LastIsOrderClick("asc")
    /\ sort = <<"-", "-">> \o CreatedAt
    /\ fieldKey(sort) = <<"-">> \o CreatedAt
    /\ view.error = "TypeError"

----------------------------------------------------------------------------
(* C7 *)

\* C7: every click on a field or direction option calls close exactly once, as
\* the last call of the click, after any call to refineFolderData; so does the
\* 'descending' click that calls nothing else.
C7_CloseOnceAndLast ==
    last.group # "none" =>
        LET cs == ClickCalls IN
        /\ Len(cs) >= 1
        /\ cs[Len(cs)] = CloseCall
        /\ \A i \in 1..(Len(cs) - 1) : cs[i][1] = "refineFolderData"

\* A 'descending' click, whose only call is close, after an earlier click.
C7_Witness ==
    /\ LastIsOrderClick("desc")
    /\ ClickCalls = << CloseCall >>
    /\ last.mark > 0

----------------------------------------------------------------------------
(* C8 *)

\* C8: when the descriptor's field key equals no field option value, the
\* component still renders, with no field option selected, and reaches no error.
C8_UnmatchedFieldRendersNothingSelected ==
    (\A i \in 1..Len(sortOnOptions) : sortOnOptions[i].value # StripOneDash(sort)) =>
        /\ view.error = "none"
        /\ \A i \in DOMAIN view.sortActive : ~view.sortActive[i]

----------------------------------------------------------------------------
(* C9 *)

\* C9: deletePost calls payload.delete only for a user that is present with
\* role 'admin'; for any other user it ends rejected with 'Unauthorized' without
\* having called getPayload, and the collection is as it was.
C9_DeleteOnlyForAdmin ==
    /\ \A i \in 1..Len(apiCalls) : apiCalls[i][1] = "payload.delete" => IsAdmin(inv.user)
    /\ (inv.pc # "idle" /\ ~IsAdmin(inv.user)) =>
           /\ inv.pc = "rejected"
           /\ inv.error = "Unauthorized"
           /\ apiCalls = << >>
           /\ posts = inv.postsBefore

\* An editor asks for an existing post to be deleted and is refused.
C9_Witness ==
    /\ inv.pc = "rejected"
    /\ inv.error = "Unauthorized"
    /\ inv.user = [kind |-> "object", role |-> "editor"]
    /\ inv.postId \in posts

----------------------------------------------------------------------------
(* C10 *)

\* C10: a click on the 'ascending' option, whatever the descriptor s was, calls
\* refineFolderData exactly once with query.sort equal to '-' followed by s and
\* updateURL true; the descriptor becomes one character longer and no '-' is
\* removed.
C10_AscendingClickPrependsDash ==
    LastIsOrderClick("asc") =>
        /\ RefineCalls(ClickCalls) =
               << RefineCall([query |-> [sort |-> <<"-">> \o last.sort], updateURL |-> TRUE]) >>
        /\ sort = <<"-">> \o last.sort
        /\ Len(sort) = Len(last.sort) + 1

\* A click on 'ascending' while the descriptor was already '-createdAt'.
C10_Witness ==
    /\ LastIsOrderClick("asc")
    /\ last.sort = <<"-">> \o CreatedAt
    /\ sort = <<"-", "-">> \o CreatedAt

----------------------------------------------------------------------------
(* C11 *)

\* C11: once the descriptor starts with '-', a click on a direction option
\* ('ascending' or 'descending') never produces a descriptor that does not
\* start with '-'; a step that takes a descending descriptor to an ascending
\* one is a click on a field option.
C11_OnlyFieldClickReturnsToAscending ==
    [][(LeadingDash(sort) /\ ~LeadingDash(sort')) => last'.group = "sort"]_vars

\* A direction click made on a descending descriptor, after an earlier click:
\* the descriptor still starts with '-'.
C11_Witness ==
    /\ last.group = "order"
    /\ last.mark > 0
    /\ LeadingDash(last.sort)
    /\ LeadingDash(sort)

====
